---- MODULE Spec2Model ----
(***************************************************************************)
(* Debridarr job lifecycle: MagnetHandler (scripts/app.py), the periodic   *)
(* rescan process_existing_magnets, and the dashboard's abort_download     *)
(* (scripts/web_ui.py).                                                    *)
(*                                                                         *)
(* Threads of the program, each with its own position in the model:        *)
(*   - the watchdog observer thread running on_created,                    *)
(*   - the main thread running process_existing_magnets every 30 s,        *)
(*   - the Flask thread running abort_download,                            *)
(*   - the max_workers threads of MagnetHandler.executor, which run both   *)
(*     _process_magnet_wrapper (caching) and _download_files_from_queue.   *)
(* Nothing in the handler is locked except the per-file progress list, so  *)
(* a handler is modelled as the sequence of its reads and writes of the    *)
(* shared dictionaries, with the other threads free to run in between.     *)
(*                                                                         *)
(* Specifications:                                                         *)
(*   Spec          every thread, every outcome of the remote calls and of  *)
(*                 the file moves, abort included;                         *)
(*   SpecReliable  the runs in which every remote call and every file      *)
(*                 operation succeeds and nobody aborts, on more paths;    *)
(*   SpecRetry     one descriptor name, dropped and attempted repeatedly;  *)
(*   SpecLife      one descriptor name and one worker, with the dashboard's *)
(*                 abort and retry and a restart of the process; releases  *)
(*                 and moves are recorded;                                 *)
(*   SpecArchive   download_file's post-processing of one staged file, for  *)
(*                 every extension, size, header and outcome;              *)
(*   SpecLock      the threads that touch one job's per-file progress list; *)
(*   SpecEntries   one download body and the file threads of its entries; *)
(*   SpecAbort     one descriptor name, aborted and submitted again, with  *)
(*                 the aborted jobs recorded;                              *)
(*   SpecReload    the handlers made by setup_handlers and their jobs;     *)
(*   SpecQueueFair the failure-free runs with every thread scheduled;      *)
(*   SpecPoll      one call of wait_for_torrent, sample by sample;         *)
(*   SpecPollFair  the same, the polling thread never starved.             *)
(***************************************************************************)
EXTENDS Integers, Sequences, FiniteSets, TLC

\* ---------------------------------------------------------------- bounds
\* Spec: distinct descriptor paths, descriptor files dropped, jobs
\* submitted and abort requests in one run.
NPaths == 2
MaxDrops == 2
MaxJobs == 2
MaxAborts == 1
\* SpecReliable: distinct paths (each dropped once, each one job).
ReliablePaths == 3
\* SpecPoll: re-adds of a torrent that the remote service reports missing.
MaxReadds == 1
\* SpecRetry: drops of the one descriptor name, and jobs submitted for it.
RetryDrops == 3
RetryJobs == 3

\* SpecLife: drops of the one descriptor name, jobs submitted for it, uses
\* of the dashboard's abort and retry, and restarts of the process.
LifeDrops == 1
LifeJobs == 3
LifeAborts == 1
LifeRetries == 1
LifeRestarts == 1

\* SpecLock: file threads of one job, and progress updates of each.
LockFiles == 2
LockUpdates == 2
\* SpecEntries: the links of one torrent.
MaxEntries == 2
\* SpecAbort: drops of one descriptor name, and jobs.
AbortDrops == 2
AbortJobs == 2
\* SpecReload: descriptors, drops, and runs of reload_handlers.
ReloadPaths == 2
ReloadDrops == 3
MaxReloads == 1

\* Every path any specification uses.
AllPaths == 1..4

\* perf_settings: 'low' has 1 worker, 'medium' has 2 ('high', 4, is not explored).
WorkerChoices == {1, 2}

\* Retry limit of the HosterUnavailable class.
MaxRetries == 3
\* Attempts of the move into the completed directory.
MoveAttempts == 5
\* validate_archive rejects files smaller than this many bytes.
SizeFloor == 1024
\* Zero-progress samples after which a torrent is declared dead.
DeadThreshold == 60
\* The poll loop logs every sixth attempt; nothing else reads the attempt counter.
LogPeriod == 6

VARIABLES
    max_workers,  \* MagnetHandler.max_workers
    lim,          \* what the environment does in this run (set by Init, never changed)
    h,            \* the handler's tracking dictionaries and sets
    fs,           \* the three descriptor directories, by file name
    execQueue,    \* the executor's pending tasks, oldest first
    running,      \* the bodies the executor's threads are running, and where each is
    watcher,      \* the observer thread: its event queue, and on_created's position
    scanner,      \* the main thread inside process_existing_magnets
    env,          \* counters: files dropped, aborts served, jobs and downloads submitted
    hist,         \* history: admission order, the placements each job performed,
                  \* and the submissions that ended a job (network error, reject)
    poll,         \* one call of wait_for_torrent (SpecPoll)
    post,         \* one staged file in download_file's post-processing (SpecArchive)
    lk,           \* progress_lock and the threads that touch one job's
                  \* per-file progress list (SpecLock)
    ent,          \* one download body and the file threads of its entries
                  \* (SpecEntries)
    rl            \* the handlers made by setup_handlers and their jobs
                  \* (SpecReload)

vars == <<max_workers, lim, h, fs, execQueue, running, watcher, scanner, env,
          hist, poll, post, lk, ent, rl>>

\* ready_to_download is created empty and never written to afterwards.
ready_to_download == {}

\* ------------------------------------------------------------ dictionaries
\* queued_for_download is a dict: insertion ordered, one entry per key;
\* assigning an existing key keeps its position.
QueuedPaths(q) == {q[i].path : i \in DOMAIN q}

QueueAssign(q, p, r, j) ==
    IF p \in QueuedPaths(q)
    THEN [i \in DOMAIN q |-> IF q[i].path = p
                             THEN [path |-> p, res |-> r, job |-> j]
                             ELSE q[i]]
    ELSE Append(q, [path |-> p, res |-> r, job |-> j])

QueuePop(q, p) == SelectSeq(q, LAMBDA e : e.path # p)

\* The tracking entries removed by the finally block of the download body.
CleanupAll(hh, p) ==
    [hh EXCEPT !.processing_files = @ \ {p},
               !.downloading_files = @ \ {p},
               !.queued_for_download = QueuePop(@, p),
               !.download_progress = @ \ {p},
               !.file_downloads = @ \ {p},
               !.torrent_ids = [@ EXCEPT ![p] = 0],
               !.upload_timestamps = [@ EXCEPT ![p] = 0]]

\* The tracking entries removed by abort_download.
CleanupAbort(hh, p) ==
    [hh EXCEPT !.processing_files = @ \ {p},
               !.downloading_files = @ \ {p},
               !.download_progress = @ \ {p},
               !.file_downloads = @ \ {p},
               !.torrent_ids = [@ EXCEPT ![p] = 0]]

\* A placement that copies the descriptor instead of renaming it.
MovedToFailedCopy(f, p, ok) ==
    IF ok /\ p \in f.inbox
    THEN [f EXCEPT !.failed = @ \cup {p}]
    ELSE f

\* os.rename(file_path, failed/filename) inside try/except-pass: the move
\* happens when the source is there and the rename succeeds.
MovedToFailed(f, p, ok) ==
    IF ok /\ p \in f.inbox
    THEN [f EXCEPT !.inbox = @ \ {p}, !.failed = @ \cup {p}]
    ELSE f

\* The five-attempt loop moving the descriptor to the completed directory:
\* nfail attempts raise OSError before one succeeds; a missing source ends
\* the loop at once.
MovedToCompleted(f, p, nfail) ==
    IF p \in f.inbox /\ nfail < MoveAttempts
    THEN [f EXCEPT !.inbox = @ \ {p}, !.completed = @ \cup {p}]
    ELSE f

\* History of placements: job j has put a descriptor into a directory.
Placed(hs, j, before, after) ==
    [hs EXCEPT !.placed =
        @ \cup (IF after.failed # before.failed THEN {<<j, "failed">>} ELSE {})
          \cup (IF after.completed # before.completed
                THEN {<<j, "completed">>} ELSE {})]

\* History of releases: delete_torrent was called for the handle tid of
\* path p, and returned ("done") or raised ("raise").
Released(hs, p, tid, out) ==
    IF lim.record
    THEN [hs EXCEPT !.released = @ \cup {<<p, tid, out>>}]
    ELSE hs

\* History of moves: a descriptor that is in the inbox is moved to a
\* terminal directory by an os.rename that fails nfail times before it
\* would succeed.
Moved(hs, f, p, dir, nfail) ==
    IF lim.record /\ p \in f.inbox
    THEN [hs EXCEPT !.moves = @ \cup {<<p, dir, nfail>>}]
    ELSE hs

\* ------------------------------------------------------------------- Init
InitHandler ==
    [processing_files |-> {},
     downloading_files |-> {},
     queued_for_download |-> <<>>,
     download_progress |-> {},
     file_downloads |-> {},
     retry_attempts |-> [p \in AllPaths |-> 0],
     retry_cooldown |-> [p \in AllPaths |-> "none"],
     torrent_ids |-> [p \in AllPaths |-> 0],
     upload_timestamps |-> [p \in AllPaths |-> 0]]

PollOff == [pc |-> "off", zero_progress_count |-> 0, attempt |-> 0,
            zeroRun |-> 0, result |-> "none", readds |-> 0]

\* No file is being post-processed; no thread is at the progress list.
PostOff == [pc |-> "off"]
LockOff == [pc |-> "off"]
EntOff == [pc |-> "off"]
ReloadOff == [pc |-> "off"]

InitCommon ==
    /\ h = InitHandler
    /\ fs = [inbox |-> {}, completed |-> {}, failed |-> {}]
    /\ execQueue = <<>>
    /\ running = {}
    /\ watcher = [events |-> <<>>, pc |-> "idle", path |-> 0]
    /\ scanner = [pc |-> "idle", path |-> 0]
    /\ env = [drops |-> 0, seen |-> 0, aborts |-> 0, jobs |-> 0, downloads |-> 0,
              retries |-> 0, restarts |-> 0, retriedAt |-> 0]
    /\ hist = [admitOrder |-> <<>>, placed |-> {}, submitted |-> {},
               released |-> {}, moves |-> {},
               aborted |-> {}]
    /\ poll = PollOff
    /\ post = PostOff
    /\ lk = LockOff
    /\ ent = EntOff
    /\ rl = ReloadOff

Init ==
    /\ max_workers \in WorkerChoices
    /\ lim = [paths |-> NPaths, drops |-> MaxDrops, jobs |-> MaxJobs,
              aborts |-> MaxAborts, reliable |-> FALSE,
              record |-> FALSE, retries |-> 0, restarts |-> 0]
    /\ InitCommon

InitReliable ==
    /\ max_workers \in WorkerChoices
    /\ lim = [paths |-> ReliablePaths, drops |-> ReliablePaths,
              jobs |-> ReliablePaths, aborts |-> 0, reliable |-> TRUE,
              record |-> FALSE, retries |-> 0, restarts |-> 0]
    /\ InitCommon

InitLife ==
    /\ max_workers = 1
    /\ lim = [paths |-> 1, drops |-> LifeDrops, jobs |-> LifeJobs,
              aborts |-> LifeAborts, reliable |-> FALSE,
              record |-> TRUE, retries |-> LifeRetries, restarts |-> LifeRestarts]
    /\ InitCommon

InitRetry ==
    /\ max_workers \in WorkerChoices
    /\ lim = [paths |-> 1, drops |-> RetryDrops, jobs |-> RetryJobs,
              aborts |-> 0, reliable |-> FALSE,
              record |-> FALSE, retries |-> 0, restarts |-> 0]
    /\ InitCommon

\* The outcomes of a file operation: it may fail unless the run is reliable.
Outcome == IF lim.reliable THEN {TRUE} ELSE BOOLEAN

\* The failures of a rename before it would succeed: none, one (a
\* transient lock), or as many as the longest retry loop has attempts.
MoveFailures == IF lim.reliable THEN {0} ELSE {0, 1, MoveAttempts}

\* delete_torrent: the DELETE request returns (204 or another status, which
\* is only logged), or requests.delete raises.
DeleteOutcomes == IF lim.reliable THEN {"done"} ELSE {"done", "raise"}

\* ------------------------------------------------------------ environment
\* A descriptor file appears in the watched directory (dropped by the *arr
\* application, or moved back by the dashboard); watchdog queues an event.
\* Paths are interchangeable: a path is first used after all lower ones.
Drop(p) ==
    /\ env.drops < lim.drops
    /\ p <= lim.paths /\ p <= env.seen + 1
    /\ p \notin fs.inbox
    /\ fs' = [fs EXCEPT !.inbox = @ \cup {p}]
    /\ watcher' = [watcher EXCEPT !.events = Append(@, p)]
    /\ env' = [env EXCEPT !.drops = @ + 1,
                          !.seen = IF p > @ THEN p ELSE @]
    /\ UNCHANGED <<max_workers, lim, h, execQueue, running, scanner, hist, poll, post, lk, ent, rl>>

\* Ten minutes pass after a HosterUnavailable: time.time() is no longer
\* below retry_cooldown[p].
CooldownElapse(p) ==
    /\ h.retry_cooldown[p] = "active"
    /\ h' = [h EXCEPT !.retry_cooldown[p] = "elapsed"]
    /\ UNCHANGED <<max_workers, lim, fs, execQueue, running, watcher, scanner,
                   env, hist, poll, post, lk, ent, rl>>

\* Jobs that a thread has decided to submit but has not submitted yet.
Deciding == (IF watcher.pc = "checked" THEN 1 ELSE 0)
            + (IF scanner.pc = "checked" THEN 1 ELSE 0)

WrapperTask(p, j) ==
    [kind |-> "wrapper", tid |-> j, path |-> p, job |-> j, res |-> "none"]

\* ------------------------------------------------------- on_created (watcher)
\* on_created up to its membership test; the observer thread dispatches
\* its events one at a time, oldest first.
WatcherCheck(p) ==
    /\ watcher.pc = "idle"
    /\ watcher.events # <<>> /\ p = Head(watcher.events)
    /\ env.jobs + Deciding < lim.jobs
    /\ IF p \in h.processing_files \/ p \in ready_to_download
       THEN watcher' = [watcher EXCEPT !.events = Tail(@)]
       ELSE watcher' = [events |-> Tail(watcher.events), pc |-> "checked", path |-> p]
    /\ UNCHANGED <<max_workers, lim, h, fs, execQueue, running, scanner, env,
                   hist, poll, post, lk, ent, rl>>

\* on_created after the test: record the path, its timestamp, and submit.
\* The timestamp is the detection clock, which is the job's number.
WatcherSubmit ==
    /\ watcher.pc = "checked"
    /\ LET p == watcher.path
           j == env.jobs + 1
       IN /\ h' = [h EXCEPT !.processing_files = @ \cup {p},
                            !.upload_timestamps[p] = j,
                            !.download_progress = @ \cup {p}]
          /\ execQueue' = Append(execQueue, WrapperTask(p, j))
          /\ env' = [env EXCEPT !.jobs = j]
    /\ watcher' = [watcher EXCEPT !.pc = "idle", !.path = 0]
    /\ UNCHANGED <<max_workers, lim, fs, running, scanner, hist, poll, post, lk, ent, rl>>

\* ---------------------------------------- process_existing_magnets (rescan)
\* One file of the listing, up to the cooldown test.
ScanCheck(p) ==
    /\ scanner.pc = "idle"
    /\ p \in fs.inbox
    /\ env.jobs + Deciding < lim.jobs
    /\ ~(p \in h.processing_files \/ p \in ready_to_download)
    /\ h.retry_cooldown[p] # "active"
    /\ h' = [h EXCEPT !.retry_cooldown[p] = "none"]
    /\ scanner' = [pc |-> "checked", path |-> p]
    /\ UNCHANGED <<max_workers, lim, fs, execQueue, running, watcher, env,
                   hist, poll, post, lk, ent, rl>>

\* The same file after the tests: open it, record the path, and submit.
\* No timestamp is recorded here.  A file that is gone, or locked, is skipped.
ScanSubmit ==
    /\ scanner.pc = "checked"
    /\ \E readable \in Outcome :
        LET p == scanner.path
            j == env.jobs + 1
        IN IF p \in fs.inbox /\ readable
           THEN /\ h' = [h EXCEPT !.processing_files = @ \cup {p},
                                  !.download_progress = @ \cup {p}]
                /\ execQueue' = Append(execQueue, WrapperTask(p, j))
                /\ env' = [env EXCEPT !.jobs = j]
           ELSE UNCHANGED <<h, execQueue, env>>
    /\ scanner' = [pc |-> "idle", path |-> 0]
    /\ UNCHANGED <<max_workers, lim, fs, running, watcher, hist, poll, post, lk, ent, rl>>

\* The tasks waiting for a thread of the executor.
PendingTasks == {execQueue[i] : i \in DOMAIN execQueue}

\* The positions in which a body is only running _process_download_queue
\* after its own job was queued or cleaned up.
QueuePcs == {"pdq_read", "pdq_snap", "pdq_loop"}

\* The jobs alive for path p: a caching or download body, pending or
\* running, or an entry of the download queue.
LiveJobs(p) ==
    {t.job : t \in {x \in PendingTasks : x.path = p}}
    \cup {b.job : b \in {x \in running : x.path = p /\ x.pc \notin QueuePcs}}
    \cup {h.queued_for_download[i].job :
             i \in {k \in DOMAIN h.queued_for_download :
                       h.queued_for_download[k].path = p}}

\* ------------------------------------------------- abort_download (web_ui)
\* History of aborts: the jobs that were alive for path p when
\* abort_download removed its tracking.
Aborted(hs, p) ==
    IF lim.record
    THEN [hs EXCEPT !.aborted = @ \cup LiveJobs(p)]
    ELSE hs

Abort(p) ==
    /\ env.aborts < lim.aborts
    /\ p \in h.processing_files
    /\ \E removed \in Outcome, del \in DeleteOutcomes :
         IF h.torrent_ids[p] # 0 /\ del = "raise"
         THEN /\ hist' = Released(hist, p, h.torrent_ids[p], del)
              /\ UNCHANGED <<h, fs>>
         ELSE /\ h' = CleanupAbort(h, p)
              /\ fs' = IF removed THEN [fs EXCEPT !.inbox = @ \ {p}] ELSE fs
              /\ hist' = Aborted(IF h.torrent_ids[p] # 0
                                 THEN Released(hist, p, h.torrent_ids[p], del)
                                 ELSE hist,
                                 p)
    /\ env' = [env EXCEPT !.aborts = @ + 1]
    /\ UNCHANGED <<max_workers, lim, execQueue, running, watcher, scanner,
                   poll, post, lk, ent, rl>>

\* ------------------------------------------------- retry_download (web_ui)
\* The descriptor is moved from the completed directory, or else from the
\* failed directory, back into the watched directory (a move that fails
\* changes nothing).  retriedAt remembers how many jobs had been submitted.
Retry(p) ==
    /\ env.retries < lim.retries
    /\ p \in fs.completed \cup fs.failed
    /\ fs' = IF p \in fs.completed
             THEN [fs EXCEPT !.completed = @ \ {p}, !.inbox = @ \cup {p}]
             ELSE [fs EXCEPT !.failed = @ \ {p}, !.inbox = @ \cup {p}]
    /\ watcher' = IF p \in fs.inbox THEN watcher
                  ELSE [watcher EXCEPT !.events = Append(@, p)]
    /\ env' = [env EXCEPT !.retries = @ + 1, !.retriedAt = env.jobs]
    /\ UNCHANGED <<max_workers, lim, h, execQueue, running, scanner, hist,
                   poll, post, lk, ent, rl>>

\* ------------------------------------------------------------------ restart
\* The process is stopped and started again: every thread and all of the
\* handler's tracking are gone, the directories are as they were, and main
\* builds a new handler before it rescans.
Restart ==
    /\ env.restarts < lim.restarts
    /\ h' = InitHandler
    /\ execQueue' = <<>>
    /\ running' = {}
    /\ watcher' = [events |-> <<>>, pc |-> "idle", path |-> 0]
    /\ scanner' = [pc |-> "idle", path |-> 0]
    /\ env' = [env EXCEPT !.restarts = @ + 1]
    /\ UNCHANGED <<max_workers, lim, fs, hist, poll, post, lk, ent, rl>>

\* ------------------------------------------------------------ the executor
\* ThreadPoolExecutor(max_workers): at most max_workers bodies run at once,
\* whatever their kind; a free thread takes the oldest pending task.
ExecutorThreads == max_workers

Pickup ==
    /\ execQueue # <<>>
    /\ Cardinality(running) < ExecutorThreads
    /\ LET t == Head(execQueue)
       IN running' = running \cup
              {[kind |-> t.kind, tid |-> t.tid, path |-> t.path, job |-> t.job,
                res |-> t.res,
                pc |-> IF t.kind = "wrapper" THEN "start" ELSE "dl_start",
                avail |-> 0, items |-> <<>>, file |-> "none"]}
    /\ execQueue' = Tail(execQueue)
    /\ UNCHANGED <<max_workers, lim, h, fs, watcher, scanner, env, hist, poll, post, lk, ent, rl>>

\* The body returns: its thread is free again.
Finish(b) == running' = running \ {b}

Goto(b, label) == running' = (running \ {b}) \cup {[b EXCEPT !.pc = label]}

\* ------------------------------------- _upload_and_cache_magnet (caching)
\* Outcomes of add_torrent / add_torrent_file / check_or_add_torrent:
\* a torrent id (201, or an existing torrent); a requests exception, which
\* returns None ("net"; a missing token ends the same way); 429 ("rate");
\* any other answer, which returns 'FAILED'.
AddOutcomes == IF lim.reliable THEN {"id"} ELSE {"id", "net", "rate", "FAILED"}
\* Outcomes of select_files: True, False, or a raised requests exception.
SelectOutcomes == IF lim.reliable THEN {"ok"} ELSE {"ok", "fail", "raise"}
\* Outcomes of wait_for_torrent: 'DEAD'; None; a raised requests exception;
\* or the list of results, which is empty ("empty", falsy like None), holds
\* only links to download ("ok"), or holds a HOSTER_UNAVAILABLE entry ("hoster").
ResultKinds == {"ok", "hoster"}
WaitOutcomes == IF lim.reliable THEN {"ok"}
                ELSE {"DEAD", "none", "empty", "raise"} \cup ResultKinds

\* Lines 117-142: the existence test, the duplicate test, reading the file.
WrapStart(b) ==
    /\ b.pc = "start"
    /\ LET p == b.path
       IN \E ok \in Outcome :
           IF p \notin fs.inbox
           THEN /\ Finish(b)
                /\ UNCHANGED <<h, fs>>
           ELSE IF p \in fs.completed
           THEN /\ fs' = IF ok THEN [fs EXCEPT !.inbox = @ \ {p}] ELSE fs
                /\ Finish(b)
                /\ UNCHANGED h
           ELSE IF ok
           THEN /\ h' = [h EXCEPT !.download_progress = @ \cup {p}]
                /\ Goto(b, "add")
                /\ UNCHANGED fs
           ELSE /\ Finish(b)
                /\ UNCHANGED <<h, fs>>
    /\ UNCHANGED <<max_workers, lim, execQueue, watcher, scanner, env, hist, poll, post, lk, ent, rl>>

\* History of submissions: job j of path p ended at its submission with
\* this outcome.
Submitted(hs, j, p, out) ==
    [hs EXCEPT !.submitted = @ \cup {<<j, p, out>>}]

\* Lines 143-168: the submission and its outcomes.  A 429 answer makes
\* add_torrent sleep for a minute before it returns.
WrapAdd(b) ==
    /\ b.pc = "add"
    /\ LET p == b.path
       IN \E out \in AddOutcomes, nfail \in MoveFailures :
           CASE out = "net" ->
                  /\ hist' = Submitted(hist, b.job, p, "net")
                  /\ Finish(b)
                  /\ UNCHANGED <<h, fs>>
             [] out = "rate" ->
                  /\ Goto(b, "backoff")
                  /\ UNCHANGED <<h, fs, hist>>
             [] out = "FAILED" ->
                  /\ fs' = MovedToFailed(fs, p, nfail = 0)
                  /\ hist' = Submitted(Placed(Moved(hist, fs, p, "failed", nfail),
                                              b.job, fs, fs'),
                                       b.job, p, "FAILED")
                  /\ Finish(b)
                  /\ UNCHANGED h
             [] out = "id" ->
                  /\ h' = [h EXCEPT !.torrent_ids[p] = b.job,
                                    !.download_progress = @ \cup {p}]
                  /\ Goto(b, "select")
                  /\ UNCHANGED <<fs, hist>>
    /\ UNCHANGED <<max_workers, lim, execQueue, watcher, scanner, env, poll, post, lk, ent, rl>>

\* Lines 462-463 and 155-156: the sleep is over; add_torrent returns None
\* and the caching body returns.
WrapBackoff(b) ==
    /\ b.pc = "backoff"
    /\ Finish(b)
    /\ UNCHANGED <<max_workers, lim, h, fs, execQueue, watcher, scanner, env,
                   hist, poll, post, lk, ent, rl>>

\* Lines 170-182: select_files.
WrapSelect(b) ==
    /\ b.pc = "select"
    /\ LET p == b.path
       IN \E out \in SelectOutcomes, del \in DeleteOutcomes,
             nfail \in MoveFailures :
           CASE out = "raise" ->
                  /\ Finish(b)
                  /\ UNCHANGED <<h, fs, hist>>
             [] out = "fail" ->
                  /\ fs' = IF del = "raise" THEN fs
                           ELSE MovedToFailed(fs, p, nfail = 0)
                  /\ hist' = IF del = "raise"
                             THEN Released(hist, p, b.job, del)
                             ELSE Placed(Moved(Released(hist, p, b.job, del),
                                               fs, p, "failed", nfail),
                                         b.job, fs, fs')
                  /\ Finish(b)
                  /\ UNCHANGED h
             [] out = "ok" ->
                  /\ h' = [h EXCEPT !.download_progress = @ \cup {p}]
                  /\ Goto(b, "poll")
                  /\ UNCHANGED <<fs, hist>>
    /\ UNCHANGED <<max_workers, lim, execQueue, watcher, scanner, env, poll, post, lk, ent, rl>>

\* Lines 183-221: wait_for_torrent returns; a list of results is queued.
WrapPoll(b) ==
    /\ b.pc = "poll"
    /\ LET p == b.path
       IN \E out \in WaitOutcomes, del \in DeleteOutcomes,
             nfail \in MoveFailures :
           CASE out = "raise" ->
                  /\ Finish(b)
                  /\ UNCHANGED <<h, fs, hist>>
             [] out \in {"DEAD", "none", "empty"} ->
                  /\ fs' = IF del = "raise" THEN fs
                           ELSE MovedToFailed(fs, p, nfail = 0)
                  /\ hist' = IF del = "raise"
                             THEN Released(hist, p, b.job, del)
                             ELSE Placed(Moved(Released(hist, p, b.job, del),
                                               fs, p, "failed", nfail),
                                         b.job, fs, fs')
                  /\ Finish(b)
                  /\ UNCHANGED h
             [] out \in ResultKinds ->
                  /\ h' = [h EXCEPT !.file_downloads = @ \cup {p},
                                    !.download_progress = @ \cup {p},
                                    !.queued_for_download = QueueAssign(@, p, out, b.job)]
                  /\ Goto(b, "pdq_read")
                  /\ UNCHANGED <<fs, hist>>
    /\ UNCHANGED <<max_workers, lim, execQueue, watcher, scanner, env, poll, post, lk, ent, rl>>

\* ------------------------------------------------- _process_download_queue
\* Lines 237-240: the free slots are counted.
AvailableSlots == max_workers - Cardinality(h.downloading_files)

PdqRead(b) ==
    /\ b.pc = "pdq_read"
    /\ IF AvailableSlots <= 0 \/ h.queued_for_download = <<>>
       THEN Finish(b)
       ELSE running' = (running \ {b}) \cup
                {[b EXCEPT !.pc = "pdq_snap", !.avail = AvailableSlots]}
    /\ UNCHANGED <<max_workers, lim, h, fs, execQueue, watcher, scanner, env,
                   hist, poll, post, lk, ent, rl>>

\* list.sort(key=timestamp) is stable: equal timestamps keep the order of
\* the dictionary.
RECURSIVE SortByTimestamp(_, _)
SortByTimestamp(s, ts) ==
    IF s = <<>> THEN <<>>
    ELSE LET i == CHOOSE i \in DOMAIN s : \A k \in DOMAIN s :
                     \/ ts[s[i].path] < ts[s[k].path]
                     \/ (ts[s[i].path] = ts[s[k].path] /\ i <= k)
             rest == [k \in 1..(Len(s) - 1) |-> IF k < i THEN s[k] ELSE s[k + 1]]
         IN <<s[i]>> \o SortByTimestamp(rest, ts)

\* Lines 243-250: the queued items whose path is still being processed,
\* oldest timestamp first; a path without a timestamp counts as 0.
QueuedItems ==
    SortByTimestamp(SelectSeq(h.queued_for_download,
                              LAMBDA e : e.path \in h.processing_files),
                    h.upload_timestamps)

PdqSnap(b) ==
    /\ b.pc = "pdq_snap"
    /\ running' = (running \ {b}) \cup
           {[b EXCEPT !.pc = "pdq_loop", !.items = QueuedItems]}
    /\ UNCHANGED <<max_workers, lim, h, fs, execQueue, watcher, scanner, env,
                   hist, poll, post, lk, ent, rl>>

Min(a, b) == IF a <= b THEN a ELSE b

\* Lines 253-263: the first min(available_slots, len(queued_items)) items
\* are taken from the queue, marked as downloading, and submitted.
Admitted(items, avail) == SubSeq(items, 1, Min(avail, Len(items)))

RECURSIVE PopAll(_, _)
PopAll(q, items) ==
    IF items = <<>> THEN q ELSE PopAll(QueuePop(q, Head(items).path), Tail(items))

PdqLoop(b) ==
    /\ b.pc = "pdq_loop"
    /\ LET adm == Admitted(b.items, b.avail)
       IN /\ h' = [h EXCEPT !.queued_for_download = PopAll(@, adm),
                            !.downloading_files =
                                @ \cup {adm[i].path : i \in DOMAIN adm}]
          /\ execQueue' = execQueue \o
                 [i \in DOMAIN adm |->
                     [kind |-> "download", tid |-> env.downloads + i,
                      path |-> adm[i].path, job |-> adm[i].job, res |-> adm[i].res]]
          /\ env' = [env EXCEPT !.downloads = @ + Len(adm)]
          /\ hist' = [hist EXCEPT !.admitOrder =
                          @ \o [i \in DOMAIN adm |-> adm[i].job]]
    /\ Finish(b)
    /\ UNCHANGED <<max_workers, lim, fs, watcher, scanner, poll, post, lk, ent, rl>>

\* ----------------------------------------------- _download_files_from_queue
\* Lines 267-293 and 336-352: the KeyError of an aborted job, the
\* HosterUnavailable branch, or the submission of download_file to the
\* job's own file executor.
DlStart(b) ==
    /\ b.pc = "dl_start"
    /\ LET p == b.path
           n == h.retry_attempts[p] + 1
       IN \E nfail \in MoveFailures :
           IF p \notin h.file_downloads
           THEN /\ Goto(b, "finally")
                /\ UNCHANGED <<h, fs, hist>>
           ELSE IF b.res = "hoster"
           THEN IF n >= MaxRetries
                THEN /\ fs' = MovedToFailed(fs, p, nfail = 0)
                     /\ hist' = Placed(Moved(hist, fs, p, "failed", nfail),
                                       b.job, fs, fs')
                     /\ h' = [h EXCEPT !.download_progress = @ \cup {p},
                                       !.retry_attempts[p] = 0,
                                       !.retry_cooldown[p] = "none"]
                     /\ Goto(b, "finally")
                ELSE /\ h' = [h EXCEPT !.download_progress = @ \cup {p},
                                       !.retry_attempts[p] = n,
                                       !.retry_cooldown[p] = "active"]
                     /\ Goto(b, "finally")
                     /\ UNCHANGED <<fs, hist>>
           ELSE /\ h' = [h EXCEPT !.download_progress = @ \cup {p}]
                /\ running' = (running \ {b}) \cup
                       {[b EXCEPT !.pc = "dl_wait", !.file = "streaming"]}
                /\ UNCHANGED <<fs, hist>>
    /\ UNCHANGED <<max_workers, lim, execQueue, watcher, scanner, env, poll, post, lk, ent, rl>>

\* download_file, run by a thread of the job's file executor.  The file of
\* a job is "streaming" (chunks are written to the staging file, the path is
\* tested before each), "written" (the test before the last chunk passed:
\* the chunk is written and the thread sleeps before the move), "moved"
\* (Completed or Extracted), "deleted" (the abort was seen and the staging
\* file removed) or "failed" (an error ended the transfer or the move).
FileDone == {"moved", "deleted", "failed"}

SetFile(b, value) == running' = (running \ {b}) \cup {[b EXCEPT !.file = value]}

\* Lines 832-841: the test before a chunk.
FileChunk(b) ==
    /\ b.file = "streaming"
    /\ \E ok \in Outcome :
         IF b.path \notin h.processing_files
         THEN SetFile(b, IF ok THEN "deleted" ELSE "failed")
         ELSE SetFile(b, IF ok THEN "written" ELSE "failed")
    /\ UNCHANGED <<max_workers, lim, h, fs, execQueue, watcher, scanner, env,
                   hist, poll, post, lk, ent, rl>>

\* Lines 862-936: extraction, or the move into the completed-files folder.
FileMove(b) ==
    /\ b.file = "written"
    /\ \E ok \in Outcome : SetFile(b, IF ok THEN "moved" ELSE "failed")
    /\ UNCHANGED <<max_workers, lim, h, fs, execQueue, watcher, scanner, env,
                   hist, poll, post, lk, ent, rl>>

\* Lines 297-334: one pass of the wait loop that leaves it: the job was
\* aborted (return, through the exit of the with block), or every file
\* future is done.
DlWait(b) ==
    /\ b.pc = "dl_wait"
    /\ \/ /\ b.path \notin h.processing_files
          /\ \E del \in DeleteOutcomes :
               hist' = IF h.torrent_ids[b.path] # 0
                       THEN Released(hist, b.path, h.torrent_ids[b.path], del)
                       ELSE hist
          /\ Goto(b, "dl_join")
       \/ /\ b.path \in h.processing_files
          /\ b.file \in FileDone
          /\ Goto(b, "dl_finish")
          /\ UNCHANGED hist
    /\ UNCHANGED <<max_workers, lim, h, fs, execQueue, watcher, scanner, env,
                   poll, post, lk, ent, rl>>

\* Line 287: leaving the with block waits for the running file threads.
DlJoin(b) ==
    /\ b.pc = "dl_join"
    /\ b.file \in FileDone
    /\ Goto(b, "finally")
    /\ UNCHANGED <<max_workers, lim, h, fs, execQueue, watcher, scanner, env,
                   hist, poll, post, lk, ent, rl>>

\* Lines 354-377: the descriptor is moved to the completed directory.
DlFinish(b) ==
    /\ b.pc = "dl_finish"
    /\ LET p == b.path
           tid == h.torrent_ids[p]
       IN \E nfail \in (IF lim.reliable THEN {0} ELSE 0..MoveAttempts),
             del \in DeleteOutcomes :
           IF tid # 0 /\ del = "raise"
           THEN /\ hist' = Released(hist, p, tid, del)
                /\ UNCHANGED fs
           ELSE /\ fs' = MovedToCompleted(fs, p, nfail)
                /\ hist' = Placed(Moved(IF tid # 0
                                        THEN Released(hist, p, tid, del)
                                        ELSE hist,
                                        fs, p, "completed", nfail),
                                  b.job, fs, fs')
    /\ Goto(b, "finally")
    /\ UNCHANGED <<max_workers, lim, h, execQueue, watcher, scanner, env, poll, post, lk, ent, rl>>

\* Lines 381-391: the finally block, up to its call of the queue.
DlFinally(b) ==
    /\ b.pc = "finally"
    /\ h' = CleanupAll(h, b.path)
    /\ Goto(b, "pdq_read")
    /\ UNCHANGED <<max_workers, lim, fs, execQueue, watcher, scanner, env,
                   hist, poll, post, lk, ent, rl>>

\* -------------------------------------------------------------------- Next
Body ==
    \/ Pickup
    \/ \E b \in running : WrapStart(b)
    \/ \E b \in running : WrapAdd(b)
    \/ \E b \in running : WrapSelect(b)
    \/ \E b \in running : WrapPoll(b)
    \/ \E b \in running : PdqRead(b)
    \/ \E b \in running : PdqSnap(b)
    \/ \E b \in running : PdqLoop(b)
    \/ \E b \in running : DlStart(b)
    \/ \E b \in running : FileChunk(b)
    \/ \E b \in running : FileMove(b)
    \/ \E b \in running : DlWait(b)
    \/ \E b \in running : DlJoin(b)
    \/ \E b \in running : DlFinish(b)
    \/ \E b \in running : DlFinally(b)

\* The sleep after a 429 answer; a run whose remote service never fails
\* has no such step.
Backoff == \E b \in running : WrapBackoff(b)

Detect ==
    \/ \E p \in AllPaths : Drop(p)
    \/ \E p \in AllPaths : WatcherCheck(p)
    \/ WatcherSubmit
    \/ \E p \in AllPaths : ScanCheck(p)
    \/ ScanSubmit

Next ==
    \/ Detect
    \/ Body
    \/ Backoff
    \/ \E p \in AllPaths : CooldownElapse(p)
    \/ \E p \in AllPaths : Abort(p)

Spec == Init /\ [][Next]_vars

NextReliable == Detect \/ Body

SpecReliable == InitReliable /\ [][NextReliable]_vars

NextRetry ==
    \/ Detect
    \/ Body
    \/ Backoff
    \/ \E p \in AllPaths : CooldownElapse(p)

SpecRetry == InitRetry /\ [][NextRetry]_vars

NextLife ==
    \/ Detect
    \/ Body
    \/ Backoff
    \/ \E p \in AllPaths : CooldownElapse(p)
    \/ \E p \in AllPaths : Abort(p)
    \/ \E p \in AllPaths : Retry(p)
    \/ Restart

SpecLife == InitLife /\ [][NextLife]_vars

\* ======================================================== wait_for_torrent
\* One call of wait_for_torrent(torrent_id, file_path) for path PollPath,
\* one loop iteration per step.  The remote service answers each GET with
\* 404, with 200 and a (status, progress) pair, or with another code; the
\* GET may also raise.
PollPath == 1

\* Statuses of the remote service the code tells apart: 'downloaded',
\* 'downloading', and the others ('queued' waiting, 'error' terminal).
Statuses == {"queued", "downloading", "downloaded", "error"}
\* The code only tests progress == 0.
Progresses == {0, 50}

InitPoll ==
    /\ max_workers = 2
    /\ lim = [paths |-> 1, drops |-> 1, jobs |-> 1, aborts |-> 0, reliable |-> FALSE,
              record |-> FALSE, retries |-> 0, restarts |-> 0]
    /\ h = [InitHandler EXCEPT !.processing_files = {PollPath},
                               !.download_progress = {PollPath},
                               !.torrent_ids[PollPath] = 1]
    /\ fs = [inbox |-> {PollPath}, completed |-> {}, failed |-> {}]
    /\ execQueue = <<>>
    /\ running = {}
    /\ watcher = [events |-> <<>>, pc |-> "idle", path |-> 0]
    /\ scanner = [pc |-> "idle", path |-> 0]
    /\ env = [drops |-> 1, seen |-> 1, aborts |-> 0, jobs |-> 1, downloads |-> 0,
              retries |-> 0, restarts |-> 0, retriedAt |-> 0]
    /\ hist = [admitOrder |-> <<>>, placed |-> {}, submitted |-> {},
               released |-> {}, moves |-> {},
               aborted |-> {}]
    /\ poll = [pc |-> "polling", zero_progress_count |-> 0, attempt |-> 0,
               zeroRun |-> 0, result |-> "none", readds |-> 0]
    /\ post = PostOff
    /\ lk = LockOff
    /\ ent = EntOff
    /\ rl = ReloadOff

\* attempt += 1; only attempt % 6 is ever read.
NextAttempt(a) == (a + 1) % LogPeriod

\* A counter that is never reset: it counts every zero-progress sample.
NextZeroCountNoReset(count, status, progress) ==
    IF progress = 0 /\ status \notin {"downloaded", "downloading"}
    THEN count + 1
    ELSE count

\* Lines 604-611: the zero-progress counter after a sample.
NextZeroCount(count, status, progress) ==
    IF progress = 0 /\ status \notin {"downloaded", "downloading"}
    THEN count + 1
    ELSE 0

\* History: the number of consecutive samples with progress 0 (it stops
\* counting at the threshold).
NextZeroRun(run, progress) ==
    IF progress = 0 THEN Min(run + 1, DeadThreshold) ELSE 0

Return(value) == [poll EXCEPT !.pc = "returned", !.result = value]

\* Lines 598-648: a 200 answer.
PollSample(status, progress) ==
    /\ poll.pc = "polling"
    /\ LET count == NextZeroCount(poll.zero_progress_count, status, progress)
           seen == [poll EXCEPT !.attempt = NextAttempt(@),
                                !.zero_progress_count = count,
                                !.zeroRun = NextZeroRun(@, progress)]
       IN /\ poll' = IF count >= DeadThreshold
                     THEN [seen EXCEPT !.pc = "returned", !.result = "DEAD"]
                     ELSE IF status = "downloaded"
                     THEN [seen EXCEPT !.pc = "returned", !.result = "results"]
                     ELSE seen
          /\ h' = IF PollPath \in h.download_progress
                  THEN [h EXCEPT !.download_progress = @ \cup {PollPath}]
                  ELSE h
    /\ UNCHANGED <<max_workers, lim, fs, execQueue, running, watcher, scanner,
                   env, hist, post, lk, ent, rl>>

\* Lines 582-597: a 404 answer.  The descriptor is read and added again; a
\* new id is stored and selected, and wait_for_torrent calls itself with
\* fresh counters.  Anything raised below, the recursion limit included,
\* is swallowed and None is returned.
PollNotFound ==
    /\ poll.pc = "polling"
    /\ \E added \in {"id", "none", "FAILED"}, selected \in BOOLEAN :
         IF added = "id" /\ selected /\ poll.readds < MaxReadds
         THEN /\ poll' = [poll EXCEPT !.attempt = 0,
                                      !.zero_progress_count = 0,
                                      !.zeroRun = 0,
                                      !.readds = @ + 1]
              /\ h' = [h EXCEPT !.torrent_ids[PollPath] = @ + 1]
         ELSE /\ poll' = [Return("None") EXCEPT !.attempt = NextAttempt(@)]
              /\ h' = IF added = "id"
                      THEN [h EXCEPT !.torrent_ids[PollPath] = @ + 1]
                      ELSE h
    /\ UNCHANGED <<max_workers, lim, fs, execQueue, running, watcher, scanner,
                   env, hist, post, lk, ent, rl>>

\* Line 649: any other status code: sleep and ask again.
PollOther ==
    /\ poll.pc = "polling"
    /\ poll' = [poll EXCEPT !.attempt = NextAttempt(@)]
    /\ UNCHANGED <<max_workers, lim, h, fs, execQueue, running, watcher,
                   scanner, env, hist, post, lk, ent, rl>>

\* Line 581: requests.get raises.  Inside a re-added call the caller's bare
\* except turns it into None.
PollRaise ==
    /\ poll.pc = "polling"
    /\ poll' = [Return(IF poll.readds > 0 THEN "None" ELSE "raise")
                    EXCEPT !.attempt = NextAttempt(@)]
    /\ UNCHANGED <<max_workers, lim, h, fs, execQueue, running, watcher,
                   scanner, env, hist, post, lk, ent, rl>>

NextPoll ==
    \/ \E st \in Statuses, pr \in Progresses : PollSample(st, pr)
    \/ PollNotFound
    \/ PollOther
    \/ PollRaise

SpecPoll == InitPoll /\ [][NextPoll]_vars

\* The polling thread keeps running: it is never suspended for ever.
SpecPollFair == SpecPoll /\ WF_vars(NextPoll)

\* ================================================================= claims
\* C1: at any time there is at most one live job (caching body, download
\* queue entry or download body) for a descriptor path, whatever the
\* interleaving of on_created and the rescan.
C1_OneLiveJobPerPath ==
    \A p \in AllPaths : Cardinality(LiveJobs(p)) <= 1

\* C2: no job places its descriptor in both terminal directories, and a
\* placement is a move: the step that puts a descriptor into a terminal
\* directory takes it out of the inbox and puts it into that directory only.
C2_PerJobExclusive ==
    \A j \in 1..env.jobs :
        ~(<<j, "failed">> \in hist.placed /\ <<j, "completed">> \in hist.placed)

C2_PlacementMoves ==
    \A p \in AllPaths :
        /\ (p \in fs'.failed /\ p \notin fs.failed) =>
               (p \in fs.inbox /\ p \notin fs'.inbox /\ fs'.completed = fs.completed)
        /\ (p \in fs'.completed /\ p \notin fs.completed) =>
               (p \in fs.inbox /\ p \notin fs'.inbox /\ fs'.failed = fs.failed)

JobLive(p) ==
    \/ \E t \in PendingTasks : t.path = p
    \/ \E b \in running : b.path = p
    \/ (p \in QueuedPaths(h.queued_for_download) /\ p \in h.processing_files)

\* C3: no job ends with its descriptor in neither terminal directory and
\* no further attempt pending: a descriptor left in the inbox by a job that
\* has ended is not kept in processing_files, where neither on_created nor
\* the rescan would ever start it again.
C3_EndsPlacedOrPending ==
    \A p \in AllPaths :
        (p \in h.processing_files /\ ~JobLive(p)) =>
            (p \notin fs.inbox \/ p \in fs.completed \cup fs.failed)

Tracked(p) ==
    \/ p \in h.processing_files
    \/ p \in h.downloading_files
    \/ p \in QueuedPaths(h.queued_for_download)
    \/ p \in h.download_progress
    \/ p \in h.file_downloads
    \/ h.torrent_ids[p] # 0
    \/ p \in ready_to_download
    \/ h.upload_timestamps[p] # 0

\* C4: once the job of a path has ended, the path is in none of the
\* tracking structures.
C4_NoLeakedTracking ==
    \A p \in AllPaths : Tracked(p) => JobLive(p)

\* C5: the number of downloading jobs never exceeds max_workers.
C5_DownloadSlotsBounded ==
    Cardinality(h.downloading_files) <= max_workers

RECURSIVE Increasing(_)
Increasing(s) ==
    Len(s) < 2 \/ (s[1] < s[2] /\ Increasing(Tail(s)))

\* C6: with a pool of one worker, jobs are admitted to download in the
\* order of their detection (the job numbers are the detection times).
C6_FifoAdmission ==
    max_workers = 1 => Increasing(hist.admitOrder)

\* The positions in which a body waits for the remote service or for files.
BlockingPcs == {"start", "add", "backoff", "select", "poll", "dl_start", "dl_wait",
                "dl_join", "dl_finish"}

\* C7: a submitted job never waits for other jobs before its caching
\* starts: no wrapper is pending while every executor thread is held by
\* the caching or download body of another job.
C7_CachingNeverWaits ==
    \A t \in PendingTasks :
        t.kind = "wrapper" =>
            Cardinality({b \in running : b.pc \in BlockingPcs}) < max_workers

\* C8: after 60 consecutive samples with progress 0 the torrent has been
\* declared dead, whatever the status reported with them (a torrent
\* reported as cached has returned its results instead).
C8_DeadAfterThreshold ==
    (poll.zeroRun >= DeadThreshold /\ poll.result # "results") =>
        poll.result = "DEAD"

\* C9: the counter counts consecutive zero-progress samples only, and a
\* torrent is declared dead only when its last 60 samples all had progress 0.
C9_DeadOnlyAfterZeroRun ==
    /\ poll.zero_progress_count <= poll.zeroRun
    /\ poll.result = "DEAD" => poll.zeroRun >= DeadThreshold

\* C9 witness: a torrent was declared dead on a poll later than the 60th,
\* that is after the counter had been reset or a poll had returned no sample.
C9_Witness == poll.result = "DEAD" /\ poll.attempt # 0

\* C10: the poll loop terminates whatever the remote service answers.
C10_PollTerminates == <>(poll.pc = "returned")

\* Body c is body b one step later.
Same(b, c) == c.kind = b.kind /\ c.tid = b.tid

\* A download body counts a HosterUnavailable occurrence in this step.
HosterOccurrence(b) ==
    /\ b.pc = "dl_start" /\ b.res = "hoster"
    /\ b.path \in h.file_downloads
    /\ b \notin running'

\* C11: a HosterUnavailable occurrence of a descriptor is followed by a
\* cooldown before the descriptor is attempted again, so no occurrence is
\* counted while the cooldown of an earlier one is running; on the third
\* occurrence the descriptor is moved to the failed directory and its retry
\* count and cooldown entries are cleared.
C11_RetryBound ==
    [][\A b \in running :
          HosterOccurrence(b) =>
              /\ h.retry_cooldown[b.path] # "active"
              /\ h.retry_attempts[b.path] + 1 >= MaxRetries =>
                    (/\ b.path \in fs'.failed /\ b.path \notin fs'.inbox
                     /\ h'.retry_attempts[b.path] = 0
                     /\ h'.retry_cooldown[b.path] = "none")]_vars

\* C12: the retry count grows only in a download attempt that hits
\* HosterUnavailable; a caching body that ends at select_files or at the
\* poll moves its descriptor to the failed directory and leaves the retry
\* counts alone.
C12_OtherFailuresMoveToFailed ==
    [][/\ \A p \in AllPaths :
            h'.retry_attempts[p] > h.retry_attempts[p] =>
                \E b \in running : b.path = p /\ b.pc = "dl_start" /\ b.res = "hoster"
       /\ \A b \in running :
            (/\ b.kind = "wrapper" /\ b.pc \in {"select", "poll"}
             /\ b.path \in fs.inbox
             /\ ~(\E c \in running' : Same(b, c))) =>
                (b.path \in fs'.failed /\ h'.retry_attempts = h.retry_attempts)]_vars

\* C13: a caching body whose path has been removed from processing_files
\* does nothing more: it stores no new torrent id, queues nothing for
\* download and moves no descriptor.
C13_AbortStopsCaching ==
    [][\A b \in running :
          (/\ b.kind = "wrapper" /\ b.pc \in {"add", "select", "poll"}
           /\ b.path \notin h.processing_files
           /\ b \notin running') =>
              (/\ h'.torrent_ids = h.torrent_ids
               /\ h'.queued_for_download = h.queued_for_download
               /\ fs' = fs)]_vars

\* The job of path p has ended with its descriptor in a terminal directory.
Ended(p) ==
    /\ ~JobLive(p)
    /\ p \in fs.completed \cup fs.failed
    /\ p \notin fs.inbox

\* C14: an abort request for a job that has ended in Completed or Failed
\* changes no tracking structure and no directory.
C14_AbortOfEndedJobIsNoOp ==
    [][\A p \in AllPaths :
          (env'.aborts # env.aborts /\ Ended(p)) =>
              (/\ (p \in h.processing_files <=> p \in h'.processing_files)
               /\ (p \in h.download_progress <=> p \in h'.download_progress)
               /\ h.torrent_ids[p] = h'.torrent_ids[p])]_vars

\* C15: once the wait loop of a download body has seen the abort, no file
\* of the job is moved to the completed-files folder any more.
C15_NoFileMovedAfterAbort ==
    [][\A b \in running :
          (b.pc = "dl_join" /\ b.file # "moved") =>
              \A c \in running' : Same(b, c) => c.file # "moved"]_vars

\* C16: after a network error at submit, with the descriptor still in the
\* inbox and no job submitted since, the path is not in processing_files:
\* the next rescan starts a new attempt.
C16_RescanRetriesNetworkError ==
    \A e \in hist.submitted :
        (/\ e[3] = "net" /\ e[1] = env.jobs
         /\ e[2] \in fs.inbox
         /\ LiveJobs(e[2]) = {}) =>
            e[2] \notin h.processing_files

\* C17: after the backoff sleep of a rate-limited submit, the same body
\* makes the submit call again.
C17_RetryAfterBackoff ==
    [][\A b \in running :
          (b.pc = "backoff" /\ b \notin running') =>
              \E c \in running' : Same(b, c) /\ c.pc = "add"]_vars

\* C18: when the remote service rejects the submission, the descriptor is
\* moved to the failed directory in that step and the body returns.
C18_RejectMovesToFailed ==
    [][\A e \in hist'.submitted \ hist.submitted :
          (e[3] = "FAILED" /\ e[2] \in fs.inbox) =>
              (/\ e[2] \in fs'.failed /\ e[2] \notin fs'.inbox
               /\ ~(\E c \in running' : c.job = e[1]))]_vars

\* C19: a descriptor whose name is in the completed directory does not stay
\* in the inbox: once on_created has handled its event, either the copy is
\* gone or a job that will delete it is pending or running.
C19_DuplicateIsDeleted ==
    \A p \in AllPaths :
        (/\ p \in fs.inbox /\ p \in fs.completed /\ p \in h.processing_files
         /\ watcher.path # p /\ scanner.path # p
         /\ \A i \in DOMAIN watcher.events : watcher.events[i] # p) =>
            JobLive(p)

\* C20: a download body moves its descriptor to the completed directory
\* only if its file has been moved to the completed-files folder.
C20_CompletedOnlyIfFilesDone ==
    [][\A b \in running :
          (/\ b.pc = "dl_finish" /\ b \notin running'
           /\ b.path \in fs'.completed /\ b.path \notin fs.completed) =>
              b.file = "moved"]_vars


\* ======================================================== post-processing
\* download_file after the last chunk (lines 862-936), for one staged file.
\* The file is described by the extension its lower-cased name ends with,
\* its size, the magic its leading bytes spell, and whether its name holds
\* one of the executable extensions validate_archive looks for.
ArchiveExtensions ==
    {".zip", ".rar", ".7z", ".tar", ".tar.gz", ".tgz", ".tar.bz2", ".tbz2",
     ".tar.xz", ".txz", ".gz", ".bz2", ".xz"}
Extensions == ArchiveExtensions \cup {".mkv"}
Headers == {"PK", "Rar!", "RE~^", "7z", "gzip", "bzip2", "xz", "other"}
Sizes == {SizeFloor - 1, SizeFloor}

is_archive_file(ext) == ext \in ArchiveExtensions

\* Lines 964-1006.
validate_archive(ext, size, header, suspicious) ==
    IF size < SizeFloor THEN FALSE
    ELSE IF suspicious THEN FALSE
    ELSE IF ext = ".zip" THEN header = "PK"
    ELSE IF ext = ".rar" THEN header \in {"Rar!", "RE~^"}
    ELSE IF ext = ".7z" THEN header = "7z"
    ELSE TRUE

InitArchive ==
    /\ max_workers = 2
    /\ lim = [paths |-> 1, drops |-> 0, jobs |-> 0, aborts |-> 0, reliable |-> FALSE,
              record |-> FALSE, retries |-> 0, restarts |-> 0]
    /\ h = InitHandler
    /\ fs = [inbox |-> {}, completed |-> {}, failed |-> {}]
    /\ execQueue = <<>>
    /\ running = {}
    /\ watcher = [events |-> <<>>, pc |-> "idle", path |-> 0]
    /\ scanner = [pc |-> "idle", path |-> 0]
    /\ env = [drops |-> 0, seen |-> 0, aborts |-> 0, jobs |-> 0, downloads |-> 0,
              retries |-> 0, restarts |-> 0, retriedAt |-> 0]
    /\ hist = [admitOrder |-> <<>>, placed |-> {}, submitted |-> {},
               released |-> {}, moves |-> {},
               aborted |-> {}]
    /\ poll = PollOff
    /\ lk = LockOff
    /\ ent = EntOff
    /\ rl = ReloadOff
    /\ \E ext \in Extensions, size \in Sizes, header \in Headers,
          suspicious \in BOOLEAN, auto \in BOOLEAN, tracked \in BOOLEAN :
         post = [pc |-> "start",
                 ext |-> ext, size |-> size, header |-> header,
                 suspicious |-> suspicious,
                 auto_extract |-> auto,   \* self.auto_extract
                 tracked |-> tracked,     \* the job's progress list has this entry
                 validated |-> "none",    \* validate_archive: "yes" or "no"
                 tried |-> FALSE,         \* extraction was attempted
                 extracted |-> "none",    \* its outcome: "ok" or "fail"
                 removed |-> "none",      \* os.remove of the archive: "ok" or "fail"
                 marked |-> "none",       \* rename to FAILED_EXTRACT_: "ok" or "fail"
                 move |-> "none",         \* the final move: "exists", "moved", "raised"
                 staged |-> TRUE,         \* the file is in the staging folder
                 delivered |-> "none",    \* in completed-files: "plain" or "marked"
                 contents |-> FALSE,      \* extracted contents are in completed-files
                 status |-> "Downloading"]

PostFrame == UNCHANGED <<max_workers, lim, h, fs, execQueue, running, watcher,
                         scanner, env, hist, poll, lk, ent, rl>>

\* The entry's status is written when the progress list still has the entry.
Mark(value) == IF post.tracked THEN value ELSE post.status

\* Line 870: auto_extract and is_archive_file.
PostDetect ==
    /\ post.pc = "start"
    /\ post' = [post EXCEPT !.pc = IF post.auto_extract /\ is_archive_file(post.ext)
                                   THEN "validate" ELSE "move"]
    /\ PostFrame

\* Lines 873-875: validation; a rejected file is treated as a regular file.
PostValidate ==
    /\ post.pc = "validate"
    /\ LET v == validate_archive(post.ext, post.size, post.header, post.suspicious)
       IN post' = [post EXCEPT !.validated = IF v THEN "yes" ELSE "no",
                               !.pc = IF v THEN "extract" ELSE "move"]
    /\ PostFrame

\* Line 877: extract_archive_to_completed returns True or False.
PostExtract ==
    /\ post.pc = "extract"
    /\ \E ok \in BOOLEAN :
         post' = [post EXCEPT !.tried = TRUE,
                              !.extracted = IF ok THEN "ok" ELSE "fail",
                              !.contents = ok,
                              !.pc = IF ok THEN "remove" ELSE "mark"]
    /\ PostFrame

\* A removal that leaves the archive in staging.
PostRemoveKeep ==
    /\ post.pc = "remove"
    /\ \E ok \in BOOLEAN :
         post' = IF ok
                 THEN [post EXCEPT !.removed = "ok",
                                   !.status = Mark("Extracted"), !.pc = "done"]
                 ELSE [post EXCEPT !.removed = "fail", !.pc = "move"]
    /\ PostFrame

\* Lines 878-890: the extracted archive is removed and the function
\* returns; when os.remove raises, the archive goes on to the move.
PostRemove ==
    /\ post.pc = "remove"
    /\ \E ok \in BOOLEAN :
         post' = IF ok
                 THEN [post EXCEPT !.removed = "ok", !.staged = FALSE,
                                   !.status = Mark("Extracted"), !.pc = "done"]
                 ELSE [post EXCEPT !.removed = "fail", !.pc = "move"]
    /\ PostFrame

\* A marking that delivers the archive under its own name.
PostMarkPlain ==
    /\ post.pc = "mark"
    /\ \E ok \in BOOLEAN :
         post' = IF ok
                 THEN [post EXCEPT !.marked = "ok", !.staged = FALSE,
                                   !.delivered = "plain",
                                   !.status = Mark("Failed Extraction"),
                                   !.pc = "done"]
                 ELSE [post EXCEPT !.marked = "fail", !.pc = "move"]
    /\ PostFrame

\* Lines 891-905: the archive that failed to extract is renamed to
\* FAILED_EXTRACT_<name> in completed-files and the function returns; when
\* os.rename raises, the archive goes on to the move.
PostMark ==
    /\ post.pc = "mark"
    /\ \E ok \in BOOLEAN :
         post' = IF ok
                 THEN [post EXCEPT !.marked = "ok", !.staged = FALSE,
                                   !.delivered = "marked",
                                   !.status = Mark("Failed Extraction"),
                                   !.pc = "done"]
                 ELSE [post EXCEPT !.marked = "fail", !.pc = "move"]
    /\ PostFrame

\* Lines 907-936: a file of that name is already in completed-files (the
\* staged one is removed); or the rename succeeds within its five attempts;
\* or the fifth attempt raises, which download_file logs and swallows.
PostMove ==
    /\ post.pc = "move"
    /\ \E exists \in BOOLEAN, nfail \in {0, 1, MoveAttempts} :
         post' = IF exists
                 THEN [post EXCEPT !.move = "exists", !.staged = FALSE, !.pc = "done"]
                 ELSE IF nfail < MoveAttempts
                 THEN [post EXCEPT !.move = "moved", !.staged = FALSE,
                                   !.delivered = "plain",
                                   !.status = Mark("Completed"), !.pc = "done"]
                 ELSE [post EXCEPT !.move = "raised", !.pc = "done"]
    /\ PostFrame

NextArchive ==
    \/ PostDetect
    \/ PostValidate
    \/ PostExtract
    \/ PostRemove
    \/ PostMark
    \/ PostMove

SpecArchive == InitArchive /\ [][NextArchive]_vars

\* ============================================================ progress_lock
\* The per-file progress list file_downloads[file_path] of one job and the
\* threads that touch it: the job's file threads (download_file), the
\* caching body that creates the list, the finally block of a download
\* body, and abort_download.  holder is the thread inside
\* `with self.progress_lock`, 0 when the lock is free.
FileThreads == 1..LockFiles
Creator == LockFiles + 1
Cleaner == LockFiles + 2
Aborter == LockFiles + 3
LockThreads == 1..(LockFiles + 3)

InitLock ==
    /\ max_workers = 2
    /\ lim = [paths |-> 1, drops |-> 0, jobs |-> 0, aborts |-> 0, reliable |-> FALSE,
              record |-> FALSE, retries |-> 0, restarts |-> 0]
    /\ h = InitHandler
    /\ fs = [inbox |-> {}, completed |-> {}, failed |-> {}]
    /\ execQueue = <<>>
    /\ running = {}
    /\ watcher = [events |-> <<>>, pc |-> "idle", path |-> 0]
    /\ scanner = [pc |-> "idle", path |-> 0]
    /\ env = [drops |-> 0, seen |-> 0, aborts |-> 0, jobs |-> 0, downloads |-> 0,
              retries |-> 0, restarts |-> 0, retriedAt |-> 0]
    /\ hist = [admitOrder |-> <<>>, placed |-> {}, submitted |-> {},
               released |-> {}, moves |-> {},
               aborted |-> {}]
    /\ poll = PollOff
    /\ post = PostOff
    /\ ent = EntOff
    /\ rl = ReloadOff
    /\ lk = [pc |-> "on", holder |-> 0, list |-> FALSE, len |-> 0,
             progress |-> [t \in FileThreads |-> 0],
             updates |-> [t \in FileThreads |-> 0],
             at |-> [t \in LockThreads |-> "idle"]]

LockFrame == UNCHANGED <<max_workers, lim, h, fs, execQueue, running, watcher,
                         scanner, env, hist, poll, post, ent, rl>>

\* Line 205: the caching body has its results and reaches the creation.
LkReach ==
    /\ lk.pc = "on" /\ lk.at[Creator] = "idle"
    /\ lk' = [lk EXCEPT !.at[Creator] = "create"]
    /\ LockFrame

\* Line 206: file_downloads[file_path] = [].
LkCreate ==
    /\ lk.pc = "on" /\ lk.at[Creator] = "create"
    /\ lk' = [lk EXCEPT !.list = TRUE, !.len = 0, !.at[Creator] = "append"]
    /\ LockFrame

\* Lines 207-210: one entry per file is appended.
LkAppend ==
    /\ lk.pc = "on" /\ lk.at[Creator] = "append"
    /\ lk' = [lk EXCEPT !.len = IF lk.list THEN LockFiles ELSE 0,
                        !.at[Creator] = "done"]
    /\ LockFrame

\* Lines 845-847: a file thread has a progress value to report and enters
\* `with self.progress_lock`.  The file threads exist once the results are
\* queued, that is once the creator has appended the entries.
FtAcquire(t) ==
    /\ lk.pc = "on" /\ lk.at[t] = "idle"
    /\ lk.at[Creator] = "done"
    /\ lk.holder = 0
    /\ lk' = [lk EXCEPT !.holder = t, !.at[t] = "check"]
    /\ LockFrame

\* Where a file thread goes when it leaves the with block.
AfterUpdate(t) == IF lk.updates[t] + 1 >= LockUpdates THEN "done" ELSE "idle"

\* Line 848: `file_path in self.file_downloads`.
FtCheck(t) ==
    /\ lk.pc = "on" /\ lk.at[t] = "check"
    /\ lk' = IF lk.list
             THEN [lk EXCEPT !.at[t] = "write"]
             ELSE [lk EXCEPT !.holder = 0, !.at[t] = AfterUpdate(t),
                             !.updates[t] = @ + 1]
    /\ LockFrame

\* Lines 849-851: the entry is looked up again and written; the lookup
\* raises KeyError when the list has been popped since the test, and the
\* with block releases the lock either way.
FtWrite(t) ==
    /\ lk.pc = "on" /\ lk.at[t] = "write"
    /\ lk' = IF ~lk.list
             THEN [lk EXCEPT !.holder = 0, !.at[t] = "raised"]
             ELSE [lk EXCEPT !.holder = 0, !.at[t] = AfterUpdate(t),
                             !.updates[t] = @ + 1,
                             !.progress[t] = IF t <= lk.len THEN @ + 1 ELSE @]
    /\ LockFrame

\* app.py:381-387 (the finally block of a download body, which exists once
\* the results are queued) and web_ui.py:160-164 (abort, at any time): the
\* thread reaches its file_downloads.pop(file_path, None).
LkReachPop(t) ==
    /\ lk.pc = "on" /\ t \in {Cleaner, Aborter} /\ lk.at[t] = "idle"
    /\ t = Cleaner => lk.at[Creator] = "done"
    /\ lk' = [lk EXCEPT !.at[t] = "pop"]
    /\ LockFrame

\* app.py:387 and web_ui.py:164: the list is removed.
LkPop(t) ==
    /\ lk.pc = "on" /\ t \in {Cleaner, Aborter} /\ lk.at[t] = "pop"
    /\ lk' = [lk EXCEPT !.list = FALSE, !.len = 0, !.at[t] = "done"]
    /\ LockFrame

NextLock ==
    \/ LkReach
    \/ LkCreate
    \/ LkAppend
    \/ \E t \in FileThreads : FtAcquire(t)
    \/ \E t \in FileThreads : FtCheck(t)
    \/ \E t \in FileThreads : FtWrite(t)
    \/ \E t \in LockThreads : LkReachPop(t)
    \/ \E t \in LockThreads : LkPop(t)

SpecLock == InitLock /\ [][NextLock]_vars

\* The step puts the descriptor p into a terminal directory.
PlacedNow(p) ==
    \/ p \in fs'.failed /\ p \notin fs.failed
    \/ p \in fs'.completed /\ p \notin fs.completed

\* The remote handle a body holds: a caching body that has submitted holds
\* the id it was given; a download body holds what torrent_ids has.
Handle(b) ==
    IF b.kind = "wrapper"
    THEN (IF b.pc \in {"select", "poll"} THEN b.job ELSE 0)
    ELSE h.torrent_ids[b.path]

\* C21: every step of a body that places its descriptor in the failed or
\* the completed directory while the body holds a remote handle calls
\* delete_torrent for that handle.
C21_PlacementReleasesHandle ==
    [][\A b \in running \ running' :
          (PlacedNow(b.path) /\ Handle(b) # 0) =>
              <<b.path, Handle(b), "done">> \in hist'.released]_vars

\* C22: a step of a body in which delete_torrent raises still places the
\* descriptor: the body that ends its job at select, at the poll or after
\* the download moves the descriptor out of the inbox into a terminal
\* directory in that step.
C22_ReleaseFailureKeepsPlacement ==
    [][\A b \in running \ running' :
          (/\ b.pc \in {"select", "poll", "dl_finish"}
           /\ <<b.path, Handle(b), "raise">> \in hist'.released \ hist.released
           /\ b.path \in fs.inbox) =>
              (PlacedNow(b.path) /\ b.path \notin fs'.inbox)]_vars

\* C23: a move of a descriptor into the failed or the completed directory
\* whose rename fails fewer times than the bound of attempts still places
\* the descriptor.
C23_MoveRetried ==
    [][\A e \in hist'.moves \ hist.moves :
          e[3] < MoveAttempts =>
              (e[1] \in fs'[e[2]] /\ e[1] \notin fs'.inbox)]_vars

\* No event of p waits for on_created, and neither on_created nor the
\* rescan is between its test of p and its submission.
Settled(p) ==
    /\ watcher.path # p /\ scanner.path # p
    /\ \A i \in DOMAIN watcher.events : watcher.events[i] # p

\* C24: a descriptor moved back into the inbox by the dashboard's retry is
\* started again: once on_created has handled its event and while no job
\* has been submitted since, the path is not in processing_files, so the
\* next rescan submits it.
C24_RetriedDescriptorIsStarted ==
    \A p \in AllPaths :
        (/\ env.retries > 0 /\ env.jobs = env.retriedAt
         /\ p \in fs.inbox /\ Settled(p)) =>
            p \notin h.processing_files

\* C25: after a restart the rescan rebuilds the jobs from the directories:
\* a descriptor has at most one live job, and a descriptor that is in the
\* inbox with nothing pending for it either has a live job or is free for
\* the next rescan to start (its path is not in processing_files).
C25_RestartRebuilds ==
    env.restarts > 0 =>
        \A p \in AllPaths :
            /\ Cardinality(LiveJobs(p)) <= 1
            /\ (p \in fs.inbox /\ Settled(p) /\ ~JobLive(p)) =>
                   p \notin h.processing_files

\* The threads that are at a statement that changes the progress list:
\* its creation, an append, the write of an entry, its removal.
Mutating == {t \in LockThreads : lk.at[t] \in {"create", "append", "write", "pop"}}

\* C26: a thread that is at a mutation of the per-file progress list holds
\* progress_lock, so no two threads are at a mutation at the same time.
C26_MutationsUnderLock ==
    lk.pc = "on" =>
        /\ \A t \in Mutating : lk.holder = t
        /\ Cardinality(Mutating) <= 1

ExpectedHeaders(ext) ==
    CASE ext = ".zip" -> {"PK"}
      [] ext = ".rar" -> {"Rar!", "RE~^"}
      [] ext = ".7z" -> {"7z"}
      [] ext \in {".tar.gz", ".tgz", ".gz"} -> {"gzip"}
      [] ext \in {".tar.bz2", ".tbz2", ".bz2"} -> {"bzip2"}
      [] ext \in {".tar.xz", ".txz", ".xz"} -> {"xz"}
      [] OTHER -> Headers

\* C29: extraction is attempted only on a file that is at least SizeFloor
\* bytes long and whose leading bytes spell the magic of the container type
\* its extension claims.
C29_ValidationPrecedesExtraction ==
    post.pc # "off" =>
        (post.tried =>
            (post.size >= SizeFloor /\ post.header \in ExpectedHeaders(post.ext)))

\* The tracking entries kept under the key p.
Entries(hh, p) ==
    [processing |-> p \in hh.processing_files,
     downloading |-> p \in hh.downloading_files,
     queued |-> SelectSeq(hh.queued_for_download, LAMBDA e : e.path = p),
     progress |-> p \in hh.download_progress,
     files |-> p \in hh.file_downloads,
     torrent |-> hh.torrent_ids[p],
     timestamp |-> hh.upload_timestamps[p]]

\* The directories that hold the descriptor p.
Holding(f, p) == {d \in {"inbox", "completed", "failed"} : p \in f[d]}

\* The steps in which a body handles its own failure: a failed submission,
\* selection or poll of the caching body, and, in a download body whose
\* results hold a HOSTER_UNAVAILABLE entry, the except branch and the
\* finally block.
FailureStep(b) ==
    \/ b.kind = "wrapper" /\ b.pc \in {"add", "select", "poll"}
          /\ \A c \in running' : c.job # b.job
    \/ b.kind = "download" /\ b.res = "hoster" /\ b.pc \in {"dl_start", "finally"}

\* C30: a step in which one job's body handles its own failure leaves the
\* body (phase included), the tracking entries and the descriptor of every
\* other running job as they were.
C30_FailureLeavesOtherJobs ==
    [][\A b \in running \ running' :
          FailureStep(b) =>
              \A c \in running \ {b} :
                  (c.job # b.job /\ c.pc \notin QueuePcs) =>
                      /\ c \in running'
                      /\ Entries(h', c.path) = Entries(h, c.path)
                      /\ Holding(fs', c.path) = Holding(fs, c.path)]_vars

\* A job is submitted for path p in this step.
Started(p) ==
    /\ env'.jobs = env.jobs + 1
    /\ Len(execQueue') = Len(execQueue) + 1
    /\ execQueue'[Len(execQueue')].path = p

\* The positions of a body that has left its job: the finally block and
\* the queue processing that the finally block calls.
LeavingPcs == {"finally"} \cup QueuePcs

\* While the cooldown of p is running, no body works on p and p holds no
\* download slot (the body that set the cooldown is on its way out).
C31_CooldownHoldsNothing ==
    \A p \in AllPaths :
        h.retry_cooldown[p] = "active" =>
            /\ \A b \in running : b.path = p => b.pc \in LeavingPcs
            /\ \A t \in PendingTasks : t.path # p
            /\ (p \in h.downloading_files =>
                   \E b \in running : b.path = p /\ b.pc = "finally")

\* No job is submitted for a path whose cooldown is running.
C31_NoAttemptInCooldown ==
    \A p \in AllPaths : Started(p) => h.retry_cooldown[p] # "active"

\* C31: a descriptor in cooldown holds no worker thread and no download
\* slot and is not attempted again before its cooldown time has passed;
\* once that time has passed nothing keeps the rescan from attempting it
\* (its path is not left in processing_files without a job).
C31_CooldownIsDeferred ==
    /\ []C31_CooldownHoldsNothing
    /\ [][C31_NoAttemptInCooldown]_vars
    /\ [](\A p \in AllPaths :
             (h.retry_cooldown[p] = "elapsed" /\ p \in fs.inbox /\ ~JobLive(p))
                 => p \notin h.processing_files)

\* ------------------- _download_files_from_queue and the entries of one job
\* wait_for_torrent, lines 636-648: what unrestrict_link and
\* extract_filename_from_url make of one link of the torrent.  A download URL
\* whose last segment has a dot gives that segment as the name (two files of
\* a torrent may have the same name in different folders); one without a dot
\* gives 'download.mkv'; 'HOSTER_UNAVAILABLE' is handed to
\* extract_filename_from_url as well and gives 'download.mkv'; None keeps
\* the link of the torrent (which may be empty) and gives download_<i>.mkv.
UrlNames == {"a.mkv", "b.mkv"}

DefaultName(i) ==
    CASE i = 1 -> "download_1.mkv"
      [] i = 2 -> "download_2.mkv"
      [] i = 3 -> "download_3.mkv"
      [] OTHER -> "download_4.mkv"

Unrestricted ==
    [kind : {"named"}, name : UrlNames, link : {"link"}]
    \cup [kind : {"unnamed", "HOSTER_UNAVAILABLE"}, name : {"download.mkv"},
          link : {"link"}]
    \cup [kind : {"None"}, name : {"default"}, link : {"link", ""}]

ResultOf(i, u) ==
    CASE u.kind = "named" -> [link |-> "url", name |-> u.name]
      [] u.kind = "unnamed" -> [link |-> "url", name |-> "download.mkv"]
      [] u.kind = "HOSTER_UNAVAILABLE" ->
             [link |-> "HOSTER_UNAVAILABLE", name |-> "download.mkv"]
      [] OTHER -> [link |-> u.link, name |-> DefaultName(i)]

\* The result lists that reach the download body: a list without any link
\* is falsy and ends the caching body at line 195.
ResultLists ==
    UNION {{[i \in 1..n |-> ResultOf(i, us[i])] : us \in [1..n -> Unrestricted]}
              : n \in 1..MaxEntries}

\* Line 291: `if download_link and filename`.
Downloadable(r) == r.link # ""

\* The states of a file future: "none" (not submitted), "pending",
\* "streaming" (the staging file is open for writing), "written" (closed,
\* waiting for its move), and the final ones.
FutureDone == {"moved", "failed", "raised", "deleted", "cancelled"}

InFlight(i) == ent.futures[i] \in {"streaming", "written"}

\* Line 825: the staging path is in_progress_folder joined with the name.
temp_path(i) == ent.results[i].name

InitEntries ==
    /\ max_workers \in WorkerChoices
    /\ lim = [paths |-> 1, drops |-> 0, jobs |-> 0, aborts |-> MaxAborts,
              reliable |-> FALSE, record |-> FALSE, retries |-> 0, restarts |-> 0]
    /\ h = InitHandler
    /\ fs = [inbox |-> {}, completed |-> {}, failed |-> {}]
    /\ execQueue = <<>>
    /\ running = {}
    /\ watcher = [events |-> <<>>, pc |-> "idle", path |-> 0]
    /\ scanner = [pc |-> "idle", path |-> 0]
    /\ env = [drops |-> 0, seen |-> 0, aborts |-> 0, jobs |-> 0, downloads |-> 0,
              retries |-> 0, restarts |-> 0, retriedAt |-> 0]
    /\ hist = [admitOrder |-> <<>>, placed |-> {}, submitted |-> {},
               released |-> {}, moves |-> {},
               aborted |-> {}]
    /\ poll = PollOff
    /\ post = PostOff
    /\ lk = LockOff
    /\ rl = ReloadOff
    /\ \E rs \in ResultLists, n \in {0, MaxRetries - 1} :
         ent = [pc |-> "start",
                results |-> rs,
                futures |-> [i \in DOMAIN rs |-> "none"],
                concurrent |-> 0,        \* max_workers of file_executor
                processing |-> TRUE,     \* file_path in processing_files
                tracked |-> TRUE,        \* file_path in file_downloads
                downloading |-> TRUE,    \* file_path in downloading_files
                retry_attempts |-> n,
                retry_cooldown |-> FALSE,
                place |-> "inbox",       \* the directory of the descriptor
                error |-> "none",        \* the exception caught at line 379
                aborts |-> 0]

EntFrame == UNCHANGED <<max_workers, lim, h, fs, execQueue, running, watcher,
                        scanner, env, hist, poll, post, lk, rl>>

hoster_unavailable ==
    \E i \in DOMAIN ent.results : ent.results[i].link = "HOSTER_UNAVAILABLE"

total_files == Cardinality({i \in DOMAIN ent.results : Downloadable(ent.results[i])})

\* Lines 267-293 and 336-352: the KeyError of a job whose progress list is
\* gone, the hoster branch, the ValueError of an executor without workers,
\* or the submission of every downloadable entry.
EntStart ==
    /\ ent.pc = "start"
    /\ \E nfail \in MoveFailures :
        IF ~ent.tracked
        THEN ent' = [ent EXCEPT !.pc = "finally", !.error = "KeyError"]
        ELSE IF hoster_unavailable
        THEN IF ent.retry_attempts + 1 >= MaxRetries
             THEN ent' = [ent EXCEPT !.pc = "finally",
                                     !.retry_attempts = 0,
                                     !.retry_cooldown = FALSE,
                                     !.place = IF nfail = 0 /\ @ = "inbox"
                                               THEN "failed" ELSE @]
             ELSE ent' = [ent EXCEPT !.pc = "finally",
                                     !.retry_attempts = @ + 1,
                                     !.retry_cooldown = TRUE]
        ELSE IF Min(max_workers, total_files) = 0
        THEN ent' = [ent EXCEPT !.pc = "finally", !.error = "ValueError"]
        ELSE ent' = [ent EXCEPT
                        !.pc = "wait",
                        !.concurrent = Min(max_workers, total_files),
                        !.futures = [i \in DOMAIN ent.results |->
                                        IF Downloadable(ent.results[i])
                                        THEN "pending" ELSE "none"]]
    /\ EntFrame

\* One future ends with an exception, and the futures that have not
\* started are cancelled.
FailedCancelling(futures, i) ==
    [k \in DOMAIN futures |->
        IF k = i THEN "failed"
        ELSE IF futures[k] = "pending" THEN "cancelled" ELSE futures[k]]

\* download_file, lines 933-936: the RequestException or IOError of one
\* future is caught and logged; nothing else is touched.
Failed(futures, i) == [futures EXCEPT ![i] = "failed"]

\* Lines 790-832: a thread of file_executor takes the entry; requests.get
\* answers, and the staging file is opened for writing.
FtOpen(i) ==
    /\ ent.pc \in {"wait", "join"}
    /\ ent.futures[i] = "pending"
    /\ Cardinality({k \in DOMAIN ent.futures : InFlight(k)}) < ent.concurrent
    /\ \E ok \in Outcome :
         ent' = [ent EXCEPT !.futures = IF ok THEN [@ EXCEPT ![i] = "streaming"]
                                        ELSE Failed(@, i)]
    /\ EntFrame

\* Lines 832-861: the chunks; the abort test comes before each chunk.
FtStream(i) ==
    /\ ent.pc \in {"wait", "join"}
    /\ ent.futures[i] = "streaming"
    /\ \E ok \in Outcome :
         ent' = [ent EXCEPT !.futures =
                    IF ~ent.processing THEN [@ EXCEPT ![i] = "deleted"]
                    ELSE IF ok THEN [@ EXCEPT ![i] = "written"]
                    ELSE Failed(@, i)]
    /\ EntFrame

\* Lines 862-936: post-processing and the move; a fifth failure of the move
\* is re-raised and caught as IOError, any other exception ends the future.
FtDeliver(i) ==
    /\ ent.pc \in {"wait", "join"}
    /\ ent.futures[i] = "written"
    /\ \E out \in {"moved", "failed", "raised"} :
         ent' = [ent EXCEPT !.futures = IF out = "failed" THEN Failed(@, i)
                                        ELSE [@ EXCEPT ![i] = out]]
    /\ EntFrame

download_futures == {i \in DOMAIN ent.futures : ent.futures[i] # "none"}

\* Lines 297-324: one pass of the wait loop that leaves it.
EntWait ==
    /\ ent.pc = "wait"
    /\ IF ~ent.processing
       THEN ent' = [ent EXCEPT !.pc = "join",
                               !.futures = [i \in DOMAIN @ |->
                                   IF @[i] = "pending" THEN "cancelled" ELSE @[i]]]
       ELSE /\ \A i \in download_futures : ent.futures[i] \in FutureDone
            /\ ent' = [ent EXCEPT !.pc = "collect"]
    /\ EntFrame

\* Line 287: leaving the with block waits for the threads that are running.
EntJoin ==
    /\ ent.pc = "join"
    /\ \A i \in download_futures : ent.futures[i] \in FutureDone
    /\ ent' = [ent EXCEPT !.pc = "finally"]
    /\ EntFrame

\* Lines 326-377: the results are collected, the torrent is released and
\* the descriptor is moved to the completed directory.
EntCollect ==
    /\ ent.pc = "collect"
    /\ \E del \in DeleteOutcomes, nfail \in MoveFailures :
         ent' = [ent EXCEPT !.pc = "finally",
                            !.place = IF del = "done" /\ nfail < MoveAttempts
                                         /\ @ = "inbox"
                                      THEN "completed" ELSE @]
    /\ EntFrame

\* Lines 381-391.
EntFinally ==
    /\ ent.pc = "finally"
    /\ ent' = [ent EXCEPT !.pc = "done", !.processing = FALSE,
                          !.tracked = FALSE, !.downloading = FALSE]
    /\ EntFrame

\* abort_download of the dashboard, for this job.
EntAbort ==
    /\ ent.pc \in {"start", "wait", "collect"}
    /\ ent.processing /\ ent.aborts < lim.aborts
    /\ \E removed \in Outcome :
         ent' = [ent EXCEPT !.processing = FALSE, !.tracked = FALSE,
                            !.downloading = FALSE, !.aborts = @ + 1,
                            !.place = IF removed /\ @ = "inbox" THEN "removed" ELSE @]
    /\ EntFrame

NextEntries ==
    \/ EntStart
    \/ \E i \in DOMAIN ent.futures : FtOpen(i)
    \/ \E i \in DOMAIN ent.futures : FtStream(i)
    \/ \E i \in DOMAIN ent.futures : FtDeliver(i)
    \/ EntWait
    \/ EntJoin
    \/ EntCollect
    \/ EntFinally
    \/ EntAbort

SpecEntries == InitEntries /\ [][NextEntries]_vars

\* The futures that end in this step with a network or write failure.
FailingNow ==
    {i \in DOMAIN ent.futures :
        /\ ent.futures[i] \in {"pending", "streaming", "written"}
        /\ ent'.futures[i] \in {"failed", "raised"}}

C32_SiblingsUntouched ==
    \A i \in FailingNow :
        /\ \A k \in DOMAIN ent.futures \ {i} : ent'.futures[k] = ent.futures[k]
        /\ ent'.pc = ent.pc
        /\ ent'.processing = ent.processing

C32_AllRunToTheirEnd ==
    (ent.pc = "collect" /\ ent.aborts = 0) =>
        \A i \in DOMAIN ent.results :
            Downloadable(ent.results[i]) =>
                ent.futures[i] \in {"moved", "failed", "raised"}

\* C32: within one job, the failure of one file entry (network or write)
\* changes neither the state of a sibling entry nor the wait loop, and the
\* wait loop of a job that is not aborted ends only when every downloadable
\* entry has run to its own end: none is cancelled or skipped.
C32_EntryFailureIsolated ==
    [][C32_SiblingsUntouched]_vars /\ []C32_AllRunToTheirEnd

\* C32 witness: the wait loop has ended with one entry failed and its
\* sibling delivered.
C32_Witness ==
    /\ ent.pc = "collect" /\ ent.aborts = 0
    /\ \E i, k \in DOMAIN ent.futures :
          ent.futures[i] = "failed" /\ ent.futures[k] = "moved"

\* C33: a download attempt whose results hold a HosterUnavailable entry
\* fetches none of its entries and does not move the descriptor to the
\* completed directory; it leaves the job in cooldown, or, on the third
\* occurrence, with its descriptor in the failed directory.
C33_HosterAttemptFetchesNothing ==
    (ent.pc \in {"finally", "done"} /\ hoster_unavailable /\ ent.error = "none"
        /\ ent.aborts = 0) =>
        /\ \A i \in DOMAIN ent.futures : ent.futures[i] = "none"
        /\ ent.place # "completed"
        /\ ent.retry_cooldown \/ ent.place = "failed"

\* C34: the download body is submitted at most once for a job that entered
\* the download queue, however the runs of _process_download_queue by
\* several threads interleave.
C34_AdmittedOnce ==
    \A i, k \in DOMAIN hist.admitOrder :
        hist.admitOrder[i] = hist.admitOrder[k] => i = k

\* ------------------------------------------------ the executor, with fairness
\* Two descriptors, no failing operation, no abort.
InitQueue ==
    /\ max_workers \in WorkerChoices
    /\ lim = [paths |-> NPaths, drops |-> MaxDrops, jobs |-> MaxJobs,
              aborts |-> 0, reliable |-> TRUE,
              record |-> FALSE, retries |-> 0, restarts |-> 0]
    /\ InitCommon

\* Every thread that can take a step takes one: the observer thread, the
\* rescan of the main loop, the executor's threads and the file threads.
\* The one step that nothing bounds is the return of wait_for_torrent: its
\* loop (line 579) has no timeout and runs for as long as the remote
\* service reports the torrent as not yet downloaded.
Scheduling ==
    /\ WF_vars(\E p \in AllPaths : WatcherCheck(p))
    /\ WF_vars(WatcherSubmit)
    /\ WF_vars(\E p \in AllPaths : ScanCheck(p))
    /\ WF_vars(ScanSubmit)
    /\ WF_vars(Pickup)
    /\ WF_vars(\E b \in running : WrapStart(b))
    /\ WF_vars(\E b \in running : WrapAdd(b))
    /\ WF_vars(\E b \in running : WrapSelect(b))
    /\ WF_vars(\E b \in running : PdqRead(b))
    /\ WF_vars(\E b \in running : PdqSnap(b))
    /\ WF_vars(\E b \in running : PdqLoop(b))
    /\ WF_vars(\E b \in running : DlStart(b))
    /\ WF_vars(\E b \in running : FileChunk(b))
    /\ WF_vars(\E b \in running : FileMove(b))
    /\ WF_vars(\E b \in running : DlWait(b))
    /\ WF_vars(\E b \in running : DlJoin(b))
    /\ WF_vars(\E b \in running : DlFinish(b))
    /\ WF_vars(\E b \in running : DlFinally(b))

SpecQueueFair == InitQueue /\ [][NextReliable]_vars /\ Scheduling

\* C35: a job that is in the download queue is eventually run by a download
\* body, as long as running downloads end, whatever the jobs that are still
\* in their caching phase do.
C35_QueuedEventuallyDownloads ==
    \A p \in AllPaths :
        (p \in QueuedPaths(h.queued_for_download))
            ~> (\E b \in running : b.kind = "download" /\ b.path = p)

\* --------------------------------------------- abort and a new job, recorded
\* One descriptor name that is dropped again after its job was aborted.
InitAbort ==
    /\ max_workers \in WorkerChoices
    /\ lim = [paths |-> 1, drops |-> AbortDrops, jobs |-> AbortJobs,
              aborts |-> MaxAborts, reliable |-> FALSE,
              record |-> TRUE, retries |-> 0, restarts |-> 0]
    /\ InitCommon

SpecAbort == InitAbort /\ [][Next]_vars

\* A job that was not aborted is alive for path p.
NewJobLive(p) == \E j \in LiveJobs(p) : j \notin hist.aborted

\* C36: after an abort and a new job for the same descriptor path, the
\* download body of the aborted job leaves its wait loop by the abort
\* branch, and no step of a body of the aborted job removes or changes the
\* tracking entries of the path or moves its descriptor while the new job
\* is alive.
C36_AbortedJobLeavesNewJob ==
    [][\A b \in running \ running' :
          (b.job \in hist.aborted /\ b.pc \notin QueuePcs) =>
              /\ b.pc = "dl_wait" =>
                    \A c \in running' \ running :
                        Same(b, c) => c.pc # "dl_finish"
              /\ NewJobLive(b.path) =>
                    /\ Entries(h', b.path) = Entries(h, b.path)
                    /\ Holding(fs', b.path) = Holding(fs, b.path)]_vars

\* ------------------------------------------- setup_handlers run again (reload)
\* The handlers of one client, numbered in the order setup_handlers made
\* them; handler rl.current is the one in main's handlers list and the one
\* scheduled on the observer.  Every handler has its own processing_files
\* and its own executor, whose jobs run on after a reload.
Generations == 1..(MaxReloads + 1)

ReloadPathSet == 1..ReloadPaths

InitReload ==
    /\ max_workers \in WorkerChoices
    /\ lim = [paths |-> ReloadPaths, drops |-> ReloadDrops, jobs |-> 0, aborts |-> 0,
              reliable |-> TRUE, record |-> FALSE, retries |-> 0, restarts |-> 0]
    /\ h = InitHandler
    /\ fs = [inbox |-> {}, completed |-> {}, failed |-> {}]
    /\ execQueue = <<>>
    /\ running = {}
    /\ watcher = [events |-> <<>>, pc |-> "idle", path |-> 0]
    /\ scanner = [pc |-> "idle", path |-> 0]
    /\ env = [drops |-> 0, seen |-> 0, aborts |-> 0, jobs |-> 0, downloads |-> 0,
              retries |-> 0, restarts |-> 0, retriedAt |-> 0]
    /\ hist = [admitOrder |-> <<>>, placed |-> {}, submitted |-> {},
               released |-> {}, moves |-> {},
               aborted |-> {}]
    /\ poll = PollOff
    /\ post = PostOff
    /\ lk = LockOff
    /\ ent = EntOff
    /\ rl = [pc |-> "on",
             current |-> 1,
             processing_files |-> [g \in Generations |-> {}],
             jobs |-> {},          \* <<handler, path>>: a job of that handler
             inbox |-> {},
             terminal |-> {},
             events |-> <<>>,
             drops |-> 0,
             reloads |-> 0]

ReloadFrame == UNCHANGED <<max_workers, lim, h, fs, execQueue, running, watcher,
                           scanner, env, hist, poll, post, lk, ent>>

\* A descriptor appears in the watched directory.
RlDrop(p) ==
    /\ rl.pc = "on" /\ rl.drops < lim.drops
    /\ p \in ReloadPathSet /\ p \notin rl.inbox
    /\ rl' = [rl EXCEPT !.inbox = @ \cup {p}, !.events = Append(@, p),
                        !.drops = @ + 1]
    /\ ReloadFrame

\* The handler's membership test, its add and its submit.
StartedBy(r, g, p) ==
    IF p \in r.processing_files[g] THEN r
    ELSE [r EXCEPT !.processing_files[g] = @ \cup {p},
                   !.jobs = @ \cup {<<g, p>>}]

\* on_created of the handler that is scheduled on the observer.
RlOnCreated ==
    /\ rl.pc = "on" /\ rl.events # <<>>
    /\ rl' = [StartedBy(rl, rl.current, Head(rl.events)) EXCEPT !.events = Tail(@)]
    /\ ReloadFrame

\* The main loop's process_existing_magnets for the handler in `handlers`.
RlRescan(p) ==
    /\ rl.pc = "on" /\ p \in rl.inbox
    /\ p \notin rl.processing_files[rl.current]
    /\ rl' = StartedBy(rl, rl.current, p)
    /\ ReloadFrame

\* A job ends: its descriptor goes to a terminal directory if it is still
\* in the inbox, and its handler's tracking of the path is removed.
RlJobEnd(g, p) ==
    /\ rl.pc = "on" /\ <<g, p>> \in rl.jobs
    /\ rl' = [rl EXCEPT !.jobs = @ \ {<<g, p>>},
                        !.processing_files[g] = @ \ {p},
                        !.terminal = IF p \in rl.inbox THEN @ \cup {p} ELSE @,
                        !.inbox = @ \ {p}]
    /\ ReloadFrame

\* reload_handlers: setup_handlers unschedules every watch, makes a new
\* MagnetHandler for the client and schedules it; the new list replaces
\* main's handlers and the dashboard's.  Events not yet dispatched are
\* dropped with their watch or reach the new handler.
RlReload ==
    /\ rl.pc = "on" /\ rl.reloads < MaxReloads
    /\ \E kept \in BOOLEAN :
         rl' = [rl EXCEPT !.current = @ + 1, !.reloads = @ + 1,
                          !.events = IF kept THEN @ ELSE <<>>]
    /\ ReloadFrame

NextReload ==
    \/ \E p \in ReloadPathSet : RlDrop(p)
    \/ RlOnCreated
    \/ \E p \in ReloadPathSet : RlRescan(p)
    \/ \E g \in Generations, p \in ReloadPathSet : RlJobEnd(g, p)
    \/ RlReload

SpecReload == InitReload /\ [][NextReload]_vars

\* C37: after a reload, a descriptor that a handler made before the reload
\* is processing is not started again by the new handler: no descriptor
\* has jobs of two handlers at once.
C37_ReloadStartsNoDuplicate ==
    rl.pc = "on" =>
        \A p \in ReloadPathSet :
            Cardinality({g \in Generations : <<g, p>> \in rl.jobs}) <= 1

\* C38: a job whose results hold no downloadable entry still ends with its
\* descriptor in a terminal directory: it is not left in the inbox for the
\* next rescan to start again.
C38_NoEntriesStillTerminal ==
    (ent.pc = "done" /\ total_files = 0 /\ ent.aborts = 0) =>
        ent.place \in {"completed", "failed"}

\* C39: downloading_files is a subset of processing_files in every state,
\* so the dashboard's uploading count is never negative.
C39_DownloadingWithinProcessing ==
    h.downloading_files \subseteq h.processing_files

\* C40: no two file entries that are in flight at the same time have the
\* same staging path.
C40_StagingPathsDistinct ==
    ent.pc # "off" =>
        \A i, k \in DOMAIN ent.futures :
            (i # k /\ InFlight(i) /\ InFlight(k)) => temp_path(i) # temp_path(k)

====
